---- MODULE Spec2Model ----
(***************************************************************************)
(* Model of src/app.py, the Real-Time Wireless Mesh Network Simulator:     *)
(* node generation, selfish assignment, the build of the links, the       *)
(* router (find_route) and the delivery walk (send_packet).                *)
(*                                                                         *)
(* Numbers.  Coordinates, power, trust and capacity are Python ints.       *)
(* math.dist returns the double nearest sqrt(dx^2 + dy^2); the model keeps *)
(* the exact integer d2 = dx^2 + dy^2 and derives from it                  *)
(*   - the range test  dist <= tx_range   as  d2 <= tx_range^2,            *)
(*   - int(dist / 3)                      as  ISqrt(d2) \div 3,            *)
(*   - the edge attribute weight = dist   as  ISqrt(d2 * WeightScale^2),   *)
(*     the distance in units of 1/WeightScale, rounded down.               *)
(* random.random() is modelled in hundredths (0..99), 0.6 being 60.        *)
(***************************************************************************)
EXTENDS Integers, Sequences, FiniteSets

VARIABLES
    num_nodes,      \* sidebar slider "Total Nodes"
    tx_range,       \* sidebar slider "Transmission Range"
    selfish_ratio,  \* sidebar slider "Selfish Nodes (%)"
    multi_radio,    \* sidebar checkbox "Multi-Radio Routing"
    multi_channel,  \* sidebar checkbox "Multi-Channel MAC"
    nodes,          \* the dict nodes: id -> [x, y, power, trust, selfish]
    G,              \* the nx.Graph: [node: set of ids, adj: <<u, v>> -> attributes]
    src,            \* source id, -1 before it is picked
    dst,            \* destination id, -1 before it is picked
    path,           \* the route of send_packet, None (<<>>) when there is none
    status,         \* the status send_packet returns, "" before it returns
    hop,            \* position in path of the next node the walk visits
    roll,           \* the last value random.random() returned (hundredths), -1 if none
    pc,             \* position of the script
    nodes0          \* history: nodes as Selfish Assignment left them

vars == <<num_nodes, tx_range, selfish_ratio, multi_radio, multi_channel,
          nodes, G, src, dst, path, status, hop, roll, pc, nodes0>>

cfgVars == <<num_nodes, tx_range, selfish_ratio, multi_radio, multi_channel>>

-----------------------------------------------------------------------------
(* Program constants *)

MinNodes == 5
MaxSliderNodes == 50
MinTxRange == 50
MaxTxRange == 300
MaxSelfishRatio == 80
PowerLo == 70
PowerHi == 100
FullTrust == 100
TrustLo == 20
TrustHi == 60
CapBase == 100
CapFloor == 1
DistDivisor == 3
RadioBonus == 20
ChannelBonus == 15
DropThreshold == 60
TrustPenalty == 5
DecayLo == 1
DecayHi == 5

(* Bounds of the model *)

MaxNodes == 3
MaxSelNodes == 6
WeightScale == 100

None == <<>>
EmptyGraph == [node |-> {}, adj |-> <<>>]

Ids == 0 .. (num_nodes - 1)

Max(a, b) == IF a >= b THEN a ELSE b

-----------------------------------------------------------------------------
(* Distance and capacity *)

\* Only(S) is the member of a one-element set.  Intermediate results are bound
\* as  x \in {e}  where a definition would be evaluated again at every use.
Only(S) == CHOOSE x \in S : TRUE

RECURSIVE ISqrtIn(_, _, _)
ISqrtIn(n, lo, hi) ==
    \* the r in lo..hi with r*r <= n < (r+1)*(r+1), by bisection
    IF lo >= hi THEN lo
    ELSE Only({IF mid * mid <= n THEN ISqrtIn(n, mid, hi) ELSE ISqrtIn(n, lo, mid - 1) :
                 mid \in {(lo + hi + 1) \div 2}})

ISqrt(n) == Only({ISqrtIn(m, 0, IF m < 46340 THEN m ELSE 46340) : m \in {n}})

Dist2(a, b) == (a.x - b.x) * (a.x - b.x) + (a.y - b.y) * (a.y - b.y)

InRangeStrict(d2, tx) == d2 < tx * tx

InRange(d2, tx) == d2 <= tx * tx

Weight(d2) == ISqrt(d2 * WeightScale * WeightScale)

CapacityBonusInsideMax(d2, mr, mc) ==
    Max(CapFloor, CapBase - (ISqrt(d2) \div DistDivisor)
                  + (IF mr THEN RadioBonus ELSE 0)
                  + (IF mc THEN ChannelBonus ELSE 0))

Capacity(d2, mr, mc) ==
    Max(CapFloor, CapBase - (ISqrt(d2) \div DistDivisor))
        + (IF mr THEN RadioBonus ELSE 0)
        + (IF mc THEN ChannelBonus ELSE 0)

-----------------------------------------------------------------------------
(* nx.Graph *)

HasEdge(g, u, v) == <<u, v>> \in DOMAIN g.adj

Neighbors(g, u) == {v \in g.node : HasEdge(g, u, v)}

AddEdge(g, u, v, attrs) ==
    \* Graph.add_edge: both ends become nodes; adj[u][v] and adj[v][u] are the
    \* same attribute dict, updated with the attributes given
    LET both == {<<u, v>>, <<v, u>>}
    IN  Only({[node |-> h.node \cup {u, v},
               adj  |-> [e \in DOMAIN h.adj \cup both |->
                            IF e \in both THEN a ELSE h.adj[e]]] :
                h \in {g}, a \in {attrs}})

LinkPairAnyPair(i, j) == TRUE

LinkPair(i, j) == i # j

RECURSIVE BuildFrom(_, _, _, _, _, _, _)
BuildFrom(g, p, nds, n, tx, mr, mc) ==
    \* the double loop "for i in nodes: for j in nodes", p = i * n + j
    IF p >= n * n THEN g
    ELSE LET i  == p \div n
             j  == p % n
             d2 == Dist2(nds[i], nds[j])
         IN  Only({BuildFrom(g2, q, nds, n, tx, mr, mc) :
                     q  \in {p + 1},
                     g2 \in {IF LinkPair(i, j) /\ InRange(d2, tx)
                             THEN AddEdge(g, i, j, [weight   |-> Weight(d2),
                                                    capacity |-> Capacity(d2, mr, mc)])
                             ELSE g}})

BuildGraph(nds, n, tx, mr, mc) == BuildFrom(EmptyGraph, 0, nds, n, tx, mr, mc)

-----------------------------------------------------------------------------
(* nx.shortest_path(G, src, dst, weight="weight") and find_route *)

Inf == -1

CloserKeepLonger(nd, old) == old = Inf \/ nd > old

Closer(nd, old) == old = Inf \/ nd < old

Nearest(cand, dist) ==
    CHOOSE c \in cand : \A w \in cand : dist[c] < dist[w] \/ (dist[c] = dist[w] /\ c <= w)

Relax(g, dist, pred, done, u) ==
    \* dist and pred after the edges of u have been relaxed, u settled
    Only({[dist |-> [v \in g.node |->
                       IF v \in upd THEN dist[u] + g.adj[<<u, v>>].weight ELSE dist[v]],
           pred |-> [v \in g.node |-> IF v \in upd THEN u ELSE pred[v]],
           done |-> done \cup {u}] :
            upd \in {{v \in Neighbors(g, u) \ done :
                        Closer(dist[u] + g.adj[<<u, v>>].weight, dist[v])}}})

RECURSIVE Dijkstra(_, _, _, _)
Dijkstra(g, dist, pred, done) ==
    \* settle the nearest unsettled node that has been reached, relax its edges
    LET cand == {v \in g.node \ done : dist[v] # Inf}
    IN  IF cand = {} THEN [dist |-> dist, pred |-> pred]
        ELSE Only({Dijkstra(g, r.dist, r.pred, r.done) :
                     r \in {Relax(g, dist, pred, done, Nearest(cand, dist))}})

RECURSIVE PathTo(_, _, _)
PathTo(pred, s, v) == IF v = s THEN <<s>> ELSE Append(PathTo(pred, s, pred[v]), v)

ShortestPathNoTrivial(g, s, t) ==
    IF s \notin g.node \/ t \notin g.node THEN [exc |-> "NodeNotFound", path |-> None]
    ELSE Only({IF s = t \/ r.dist[t] = Inf THEN [exc |-> "NetworkXNoPath", path |-> None]
               ELSE [exc |-> "", path |-> PathTo(r.pred, s, t)] :
                 r \in {Dijkstra(g, [v \in g.node |-> IF v = s THEN 0 ELSE Inf],
                                 [v \in g.node |-> v], {})}})

ShortestPath(g, s, t) ==
    \* the path, or the exception networkx raises: NodeNotFound when an end is
    \* not a node of the graph, NetworkXNoPath when no path joins them
    IF s \notin g.node \/ t \notin g.node THEN [exc |-> "NodeNotFound", path |-> None]
    ELSE IF s = t THEN [exc |-> "", path |-> <<s>>]
    ELSE Only({IF r.dist[t] = Inf THEN [exc |-> "NetworkXNoPath", path |-> None]
               ELSE [exc |-> "", path |-> PathTo(r.pred, s, t)] :
                 r \in {Dijkstra(g, [v \in g.node |-> IF v = s THEN 0 ELSE Inf],
                                 [v \in g.node |-> v], {})}})

find_route(g, s, t) ==
    \* try: return nx.shortest_path(...)  except: return None
    Only({IF r.exc = "" THEN r.path ELSE None : r \in {ShortestPath(g, s, t)}})

-----------------------------------------------------------------------------
(* The script, step by step *)

InitWith(NS, TS, RS, FS) ==
    /\ num_nodes \in NS
    /\ tx_range \in TS
    /\ selfish_ratio \in RS
    /\ \E f \in FS : multi_radio = f[1] /\ multi_channel = f[2]
    /\ nodes = <<>>
    /\ G = EmptyGraph
    /\ src = -1
    /\ dst = -1
    /\ path = None
    /\ status = ""
    /\ hop = 0
    /\ roll = -1
    /\ pc = "generate"
    /\ nodes0 = <<>>

NewNode(x, y, power) ==
    [x |-> x, y |-> y, power |-> power, trust |-> FullTrust, selfish |-> FALSE]

GenerateNodes(XS, YS, PS) ==
    \* for i in range(num_nodes): nodes[i] = {...}
    /\ pc = "generate"
    /\ \E f \in [Ids -> XS \X YS \X PS] :
          nodes' = [i \in Ids |-> NewNode(f[i][1], f[i][2], f[i][3])]
    /\ pc' = "selfish"
    /\ UNCHANGED <<cfgVars, G, src, dst, path, status, hop, roll, nodes0>>

SelfishCountRounded(n, ratio) == (n * ratio + 50) \div 100

SelfishCount(n, ratio) ==
    \* int(num_nodes * selfish_ratio / 100): the quotient is exact or strictly
    \* between two integers, so int() of the double is the floor
    (n * ratio) \div 100

Sample(pop, k) ==
    \* random.sample(pop, k): the lists of k distinct members of pop
    \* (ValueError, no outcome, when k exceeds the population)
    {s \in [1 .. k -> pop] : \A a, b \in 1 .. k : a # b => s[a] # s[b]}

RECURSIVE MarkSelfish(_, _, _, _)
MarkSelfish(nds, s, t, j) ==
    \* for sn in selfish_nodes: selfish = True, trust = random.randint(20, 60)
    IF j > Len(s) THEN nds
    ELSE MarkSelfish([nds EXCEPT ![s[j]].selfish = TRUE, ![s[j]].trust = t[j]],
                     s, t, j + 1)

AssignSelfish(TS) ==
    /\ pc = "selfish"
    /\ \E s \in Sample(Ids, SelfishCount(num_nodes, selfish_ratio)) :
       \E t \in [1 .. Len(s) -> TS] :
          /\ nodes' = MarkSelfish(nodes, s, t, 1)
          /\ nodes0' = nodes'
    /\ pc' = "build"
    /\ UNCHANGED <<cfgVars, G, src, dst, path, status, hop, roll>>

BuildLinks ==
    /\ pc = "build"
    /\ G' = BuildGraph(nodes, num_nodes, tx_range, multi_radio, multi_channel)
    /\ pc' = "pick"
    /\ UNCHANGED <<cfgVars, nodes, src, dst, path, status, hop, roll, nodes0>>

PickEndpoints ==
    \* src = random.randint(0, num_nodes - 1); dst likewise
    /\ pc = "pick"
    /\ src' \in Ids
    /\ dst' \in Ids
    /\ pc' = "routing"
    /\ UNCHANGED <<cfgVars, nodes, G, path, status, hop, roll, nodes0>>

NoRouteNever(p) == FALSE

NoRoute(p) == p = None   \* "if not path"

Route ==
    \* send_packet: path = find_route(src, dst); if not path: return None, "No Path Found"
    /\ pc = "routing"
    /\ path' = find_route(G, src, dst)
    /\ IF NoRoute(path')
       THEN pc' = "done" /\ status' = "No Path Found" /\ hop' = hop
       ELSE pc' = "transit" /\ status' = status /\ hop' = 1
    /\ UNCHANGED <<cfgVars, nodes, G, src, dst, roll, nodes0>>

IsSelfishInverted(h) == ~nodes[h].selfish

IsSelfish(h) == nodes[h].selfish

DropsAtOrBelow(r) == r <= DropThreshold

Drops(r) == r < DropThreshold

DropUpdateWithDecay(nds, h) ==
    [nds EXCEPT ![h].power = @ - DecayLo, ![h].trust = @ - TrustPenalty]

DropUpdate(nds, h) == [nds EXCEPT ![h].trust = @ - TrustPenalty]

PowerAfterGain(p, d) == p + d

PowerAfter(p, d) == p - d

Decay(DS, h) ==
    \* nodes[hop]["power"] -= random.randint(1, 5)
    \E d \in DS : nodes' = [nodes EXCEPT ![h].power = PowerAfter(@, d)]

Hop(RS, DS) ==
    \* one iteration of "for hop in path"
    /\ pc = "transit"
    /\ hop <= Len(path)
    /\ LET h == path[hop]
       IN  IF IsSelfish(h)
           THEN \E r \in RS :
                   /\ roll' = r
                   /\ IF Drops(r)
                      THEN /\ nodes' = DropUpdate(nodes, h)
                           /\ status' = "Dropped by selfish node"
                           /\ pc' = "done"
                           /\ hop' = hop
                      ELSE /\ Decay(DS, h)
                           /\ hop' = hop + 1
                           /\ UNCHANGED <<status, pc>>
           ELSE /\ Decay(DS, h)
                /\ hop' = hop + 1
                /\ UNCHANGED <<status, pc, roll>>
    /\ UNCHANGED <<cfgVars, G, src, dst, path, nodes0>>

Deliver ==
    \* the loop ran off the end of path: return path, "Delivered"
    /\ pc = "transit"
    /\ hop > Len(path)
    /\ status' = "Delivered"
    /\ pc' = "done"
    /\ UNCHANGED <<cfgVars, nodes, G, src, dst, path, hop, roll, nodes0>>

-----------------------------------------------------------------------------
(* Specifications: the same steps, with the inputs and the random draws    *)
(* taken from the small sets each group of claims needs.                   *)

NoFlags == {<<FALSE, FALSE>>}
AllFlags == BOOLEAN \X BOOLEAN

\* Delivery: nodes on a line 100 apart with tx_range 150, so that routes of
\* one, two and three nodes, unlinked nodes and separate components all occur;
\* 0, 1 and more selfish nodes; drop rolls on either side of 0.6.
LineXs == {0, 100, 200}
LineYs == {0}
Trusts == {TrustLo, TrustHi}
Rolls == {DropThreshold - 1, DropThreshold}
Decays == {DecayLo, DecayHi}

Init == InitWith(2 .. MaxNodes, {150}, {0, 40, MaxSelfishRatio}, NoFlags)

Next ==
    \/ GenerateNodes(LineXs, LineYs, {PowerLo})
    \/ AssignSelfish(Trusts)
    \/ BuildLinks
    \/ PickEndpoints
    \/ Route
    \/ Hop(Rolls, Decays)
    \/ Deliver

Spec == Init /\ [][Next]_vars

\* The script runs to its end: it is one thread with no suspension points.
\* (Termination does not depend on the amounts of power lost: one decay draw.)
FairNext ==
    \/ GenerateNodes(LineXs, LineYs, {PowerLo})
    \/ AssignSelfish(Trusts)
    \/ BuildLinks
    \/ PickEndpoints
    \/ Route
    \/ Hop(Rolls, {DecayHi})
    \/ Deliver

FairSpec == Init /\ [][FairNext]_vars /\ WF_vars(FairNext)

\* Topology: positions in the plane, every range and flag setting.
PlaneXs == {0, 30, 300}
PlaneYs == {0, 100}
TxRanges == {MinTxRange, 150, MaxTxRange}

InitTopo == InitWith(2 .. MaxNodes, TxRanges, {0}, AllFlags)

NextTopo ==
    \/ GenerateNodes(PlaneXs, PlaneYs, {PowerHi})
    \/ AssignSelfish(Trusts)
    \/ BuildLinks

SpecTopo == InitTopo /\ [][NextTopo]_vars

\* Selfish assignment: node counts from the slider's minimum up, every ratio.
InitSelfish ==
    InitWith(MinNodes .. MaxSelNodes, {150}, 0 .. MaxSelfishRatio, NoFlags)

NextSelfish ==
    \/ GenerateNodes({0}, {0}, {PowerLo})
    \/ AssignSelfish(Trusts)

SpecSelfish == InitSelfish /\ [][NextSelfish]_vars

\* Routing: positions in the plane, every pair of endpoints.
GridXs == {0, 100, 200}
GridYs == {0, 100}

InitRoute == InitWith(2 .. MaxNodes, {MinTxRange, 100, 150}, {0}, NoFlags)

NextRoute ==
    \/ GenerateNodes(GridXs, GridYs, {PowerHi})
    \/ AssignSelfish(Trusts)
    \/ BuildLinks
    \/ PickEndpoints
    \/ Route

SpecRoute == InitRoute /\ [][NextRoute]_vars

-----------------------------------------------------------------------------
(* Claims about the topology (SpecTopo) *)

Built == pc \notin {"generate", "selfish", "build"}

D2(i, j) == Dist2(nodes[i], nodes[j])

Bonus == (IF multi_radio THEN RadioBonus ELSE 0) + (IF multi_channel THEN ChannelBonus ELSE 0)

\* C1: once the links are built, distinct i and j are joined exactly when their
\* Euclidean distance is at most tx_range (d2 <= tx_range^2); the link is the
\* same in both directions, no node is linked to itself, G.edges() holds one
\* edge per unordered pair in range, and its weight is that distance (the
\* largest w, in units of 1/WeightScale, with w^2 <= d2 * WeightScale^2).
C1_EdgesWithinRange ==
    Built =>
        /\ DOMAIN G.adj \subseteq Ids \X Ids
        /\ \A i, j \in Ids :
              /\ i # j => (HasEdge(G, i, j) <=> D2(i, j) <= tx_range * tx_range)
              /\ ~HasEdge(G, i, i)
              /\ HasEdge(G, i, j) =>
                    /\ HasEdge(G, j, i)
                    /\ G.adj[<<i, j>>] = G.adj[<<j, i>>]
                    /\ LET w == G.adj[<<i, j>>].weight
                           t == D2(i, j) * WeightScale * WeightScale
                       IN  w >= 0 /\ w * w <= t /\ t < (w + 1) * (w + 1)
        /\ Cardinality({{e[1], e[2]} : e \in DOMAIN G.adj})
             = Cardinality({pr \in SUBSET Ids : /\ Cardinality(pr) = 2
                                               /\ \A i, j \in pr :
                                                     D2(i, j) <= tx_range * tx_range})
        /\ G.node = {i \in Ids : \E j \in Ids \ {i} : D2(i, j) <= tx_range * tx_range}

\* a pair at exactly tx_range is linked while another pair is out of range
C1_Witness ==
    /\ Built
    /\ \E i, j \in Ids : i # j /\ D2(i, j) = tx_range * tx_range /\ HasEdge(G, i, j)
    /\ \E i, j \in Ids : i # j /\ D2(i, j) > tx_range * tx_range /\ ~HasEdge(G, i, j)

\* C2: every edge at distance d has capacity max(1, 100 - floor(d / 3)) plus 20
\* with multi_radio and plus 15 with multi_channel (floor(d / 3) is the k with
\* 9 k^2 <= d2 < 9 (k + 1)^2), so it is at least 1; and against the same nodes
\* built with a flag off, the flag changes no edge and adds exactly its bonus.
C2_CapacityFormula ==
    (Built /\ tx_range \in MinTxRange .. MaxTxRange) =>
        /\ \A e \in DOMAIN G.adj :
              /\ \E k \in 0 .. CapBase :
                    /\ DistDivisor * DistDivisor * k * k <= D2(e[1], e[2])
                    /\ D2(e[1], e[2]) < DistDivisor * DistDivisor * (k + 1) * (k + 1)
                    /\ G.adj[e].capacity = Max(1, 100 - k) + Bonus
              /\ G.adj[e].capacity >= 1
        /\ LET noRadio   == BuildGraph(nodes, num_nodes, tx_range, FALSE, multi_channel)
               noChannel == BuildGraph(nodes, num_nodes, tx_range, multi_radio, FALSE)
           IN  /\ DOMAIN noRadio.adj = DOMAIN G.adj
               /\ DOMAIN noChannel.adj = DOMAIN G.adj
               /\ multi_radio =>
                     \A e \in DOMAIN G.adj :
                        G.adj[e].capacity = noRadio.adj[e].capacity + 20
               /\ multi_channel =>
                     \A e \in DOMAIN G.adj :
                        G.adj[e].capacity = noChannel.adj[e].capacity + 15

\* both bonuses on an edge whose distance term has fallen to the floor of 1
C2_Witness ==
    /\ Built
    /\ multi_radio
    /\ multi_channel
    /\ \E e \in DOMAIN G.adj :
          /\ CapBase - (ISqrt(D2(e[1], e[2])) \div DistDivisor) < 1
          /\ G.adj[e].capacity = 1 + 20 + 15

-----------------------------------------------------------------------------
(* Claim about Selfish Assignment (SpecSelfish) *)

SelfishSet == {i \in Ids : nodes[i].selfish}

\* C3: for num_nodes in 5..50 and selfish_ratio in 0..80, after Selfish
\* Assignment exactly floor(num_nodes * selfish_ratio / 100) nodes are selfish
\* (the k with 100 k <= num_nodes * selfish_ratio < 100 (k + 1)), they are ids
\* in 0..num_nodes-1, each has trust in 20..60, every other node has trust 100
\* and selfish = false, and with k = 0 no node is selfish.
C3_SelfishCount ==
    (pc = "build" /\ num_nodes \in MinNodes .. MaxSliderNodes
                  /\ selfish_ratio \in 0 .. MaxSelfishRatio) =>
        /\ DOMAIN nodes = Ids
        /\ \E k \in 0 .. num_nodes :
              /\ 100 * k <= num_nodes * selfish_ratio
              /\ num_nodes * selfish_ratio < 100 * (k + 1)
              /\ Cardinality(SelfishSet) = k
              /\ k = 0 => \A i \in Ids : ~nodes[i].selfish
        /\ \A i \in Ids :
              IF nodes[i].selfish THEN nodes[i].trust \in 20 .. 60
              ELSE nodes[i].trust = 100

\* the exact quotient has a fraction of at least one half and is rounded down
C3_Witness ==
    /\ pc = "build"
    /\ (num_nodes * selfish_ratio) % 100 >= 50
    /\ Cardinality(SelfishSet) >= 2
    /\ \E i, j \in SelfishSet : nodes[i].trust = 20 /\ nodes[j].trust = 60

-----------------------------------------------------------------------------
(* Claims about the router (SpecRoute) *)

Routed == pc \in {"transit", "done"}

RECURSIVE Reach(_, _)
Reach(g, S) ==
    \* the ids joined to a member of S by a chain of edges
    LET S2 == S \cup {v \in Ids : \E u \in S : HasEdge(g, u, v)}
    IN  IF S2 = S THEN S ELSE Reach(g, S2)

SameComponent(g, a, b) == b \in Reach(g, {a})

IsWalk(g, q, a, b) ==
    /\ Len(q) >= 1
    /\ q[1] = a
    /\ q[Len(q)] = b
    /\ \A m \in 1 .. Len(q) - 1 : HasEdge(g, q[m], q[m + 1])

RECURSIVE Cost(_, _)
Cost(g, q) ==
    IF Len(q) <= 1 THEN 0
    ELSE g.adj[<<q[1], q[2]>>].weight + Cost(g, Tail(q))

\* every sequence of at most num_nodes distinct ids leading from a to b along edges
SimplePaths(g, a, b) ==
    {q \in UNION {[1 .. m -> Ids] : m \in 1 .. num_nodes} :
        /\ \A m1, m2 \in DOMAIN q : m1 # m2 => q[m1] # q[m2]
        /\ IsWalk(g, q, a, b)}

HasLink(i) == \E j \in Ids \ {i} : D2(i, j) <= tx_range * tx_range

\* C5 as claimed: for every id src, find_route(src, src) is [src], so a run with
\* src = dst never ends "No Path Found".
C5_Original ==
    (Routed /\ src = dst) => path = <<src>> /\ status # "No Path Found"

\* C5 as amended: find_route(src, src) is [src] for every src that has at least
\* one link; a src with no link is not a node of G, find_route returns no route
\* and the run ends "No Path Found".
C5_SelfRoute ==
    (Routed /\ src = dst) =>
        IF HasLink(src)
        THEN path = <<src>> /\ status # "No Path Found"
        ELSE path = None /\ pc = "done" /\ status = "No Path Found"

\* src = dst with a link (route [src]) in a graph where another node has none
C5_Witness ==
    /\ Routed
    /\ src = dst
    /\ HasLink(src)
    /\ path = <<src>>
    /\ \E i \in Ids : ~HasLink(i)

-----------------------------------------------------------------------------
(* Claims about the delivery walk (Spec, FairSpec) *)

OnRoute == {path[m] : m \in 1 .. Len(path)}

PowerDrop(i) == nodes0[i].power - nodes[i].power

TrustDrop(i) == nodes0[i].trust - nodes[i].trust

\* C6: when the route holds no selfish node, whatever the draws, the packet is
\* never dropped and no node's trust changes, and send_packet returns
\* "Delivered" with that route, each node of the route having lost 1..5 power.
C6_CleanRouteDelivered ==
    (Routed /\ path # None /\ \A i \in OnRoute : ~nodes0[i].selfish) =>
        /\ status # "Dropped by selfish node"
        /\ \A i \in Ids : TrustDrop(i) = 0
        /\ pc = "done" =>
              /\ status = "Delivered"
              /\ IsWalk(G, path, src, dst)
              /\ \A i \in OnRoute : PowerDrop(i) \in 1 .. 5

\* a delivery over a selfish-free route of several nodes, a selfish node elsewhere
C6_Witness ==
    /\ pc = "done"
    /\ status = "Delivered"
    /\ Len(path) >= 2
    /\ \A i \in OnRoute : ~nodes0[i].selfish
    /\ \E i \in Ids \ OnRoute : nodes0[i].selfish

\* C7: a drop roll below 0.6 at a selfish node ends the run at once with
\* (route, "Dropped by selfish node"); at that point, position hop of the route,
\* the node has lost exactly 5 trust and no power, the nodes before it have lost
\* 1..5 power, the nodes after it are untouched, and when it is the first node
\* of the route no node's power has changed.
C7_DropAtSelfish ==
    /\ (roll # -1 /\ roll < 60) => (pc = "done" /\ status = "Dropped by selfish node")
    /\ (pc = "done" /\ status = "Dropped by selfish node") =>
          /\ path # None
          /\ hop \in 1 .. Len(path)
          /\ roll # -1 /\ roll < 60
          /\ nodes0[path[hop]].selfish
          /\ TrustDrop(path[hop]) = 5
          /\ PowerDrop(path[hop]) = 0
          /\ \A m \in 1 .. hop - 1 : PowerDrop(path[m]) \in 1 .. 5
          /\ \A m \in hop + 1 .. Len(path) : nodes[path[m]] = nodes0[path[m]]
          /\ hop = 1 => \A i \in Ids : PowerDrop(i) = 0

\* a drop in the middle of a three-node route, after a selfish node let it pass
C7_Witness ==
    /\ pc = "done"
    /\ status = "Dropped by selfish node"
    /\ Len(path) = 3
    /\ hop = 2
    /\ nodes0[path[1]].selfish

TwoNodeScenario ==
    /\ pc # "generate"
    /\ num_nodes = 2
    /\ tx_range = 150
    /\ ~multi_radio
    /\ ~multi_channel
    /\ nodes[0].x = 0 /\ nodes[0].y = 0
    /\ nodes[1].x = 100 /\ nodes[1].y = 0

TwoNodeGraph ==
    /\ Built =>
          /\ DOMAIN G.adj = {<<0, 1>>, <<1, 0>>}
          /\ G.adj[<<0, 1>>] = [weight |-> 100 * WeightScale, capacity |-> 67]
          /\ G.adj[<<1, 0>>] = G.adj[<<0, 1>>]
    /\ (Routed /\ src = 0 /\ dst = 1) => path = <<0, 1>>

\* C8 as claimed: nodes at (0,0) and (100,0), tx_range 150, no bonus: one edge
\* of weight 100 and capacity 67, the route from 0 to 1 is [0, 1], and whenever
\* node 1 is not selfish send_packet(0, 1) ends "Delivered", whatever node 0's
\* selfish flag and the draws.
C8_Original ==
    TwoNodeScenario =>
        /\ TwoNodeGraph
        /\ (pc = "done" /\ src = 0 /\ dst = 1 /\ ~nodes[1].selfish) =>
              status = "Delivered"

\* C8 as amended: the same graph and route; when node 1 is not selfish,
\* send_packet(0, 1) ends "Delivered" unless node 0 is selfish and its drop roll
\* is below 0.6, in which case it ends "Dropped by selfish node".
C8_TwoNodes ==
    TwoNodeScenario =>
        /\ TwoNodeGraph
        /\ (pc = "done" /\ src = 0 /\ dst = 1 /\ ~nodes[1].selfish) =>
              IF nodes[0].selfish /\ roll < 60
              THEN status = "Dropped by selfish node"
              ELSE status = "Delivered"

\* the scenario delivered past a selfish node 0 whose roll was 0.6 or more
C8_Witness ==
    /\ TwoNodeScenario
    /\ pc = "done"
    /\ src = 0
    /\ dst = 1
    /\ nodes[0].selfish
    /\ ~nodes[1].selfish
    /\ status = "Delivered"

Terminal == {"No Path Found", "Dropped by selfish node", "Delivered"}

C9_State ==
    /\ pc = "done" <=> status \in Terminal
    /\ pc # "done" => status = ""
    /\ pc = "done" =>
          /\ status = "No Path Found" <=> path = None
          /\ status = "No Path Found" <=> find_route(G, src, dst) = None
          /\ status = "Delivered" => hop = Len(path) + 1
          /\ status = "Dropped by selfish node" => hop \in 1 .. Len(path)
    /\ Routed =>
          /\ \A m1, m2 \in 1 .. Len(path) : m1 # m2 => path[m1] # path[m2]
          /\ Len(path) <= num_nodes
          /\ hop <= Len(path) + 1
          /\ path = find_route(G, src, dst)

C9_Step ==
    /\ pc = "done" => UNCHANGED vars
    /\ pc = "transit" => path' = path /\ src' = src /\ dst' = dst
    /\ (pc = "transit" /\ pc' = "transit") => hop' = hop + 1
    /\ (pc = "transit" /\ pc' = "done") => hop' = hop

\* C9: every run of send_packet ends, in exactly one of "No Path Found",
\* "Dropped by selfish node" and "Delivered", and takes no step after that; it
\* ends "No Path Found" exactly when find_route gives no route, and otherwise
\* walks the one route it computed, position by position, each node at most
\* once (at most num_nodes hop steps), to a drop or to the delivery.
C9_RunTerminates ==
    /\ <>(pc = "done")
    /\ [] C9_State
    /\ [][C9_Step]_vars

\* a run that ended in a drop at the last node of a three-node route
C9_Witness ==
    /\ pc = "done"
    /\ status = "Dropped by selfish node"
    /\ Len(path) = 3
    /\ hop = 3

C10_State ==
    (pc \notin {"generate", "selfish"}) =>
        /\ \A i \in Ids :
              /\ nodes[i].x = nodes0[i].x
              /\ nodes[i].y = nodes0[i].y
              /\ nodes[i].selfish = nodes0[i].selfish
              /\ PowerDrop(i) \in {0} \cup 1 .. 5
              /\ nodes[i].power \in 65 .. 100
              /\ TrustDrop(i) \in {0, 5}
              /\ TrustDrop(i) # 0 => nodes[i].selfish
              /\ ~nodes[i].selfish => nodes[i].trust = 100
              /\ i \notin OnRoute => PowerDrop(i) = 0 /\ TrustDrop(i) = 0
              /\ PowerDrop(i) # 0 => \E m \in 1 .. hop - 1 : path[m] = i
        /\ Cardinality({i \in Ids : TrustDrop(i) # 0}) <= 1
        /\ (pc = "done" /\ status = "No Path Found") => nodes = nodes0

C10_Step ==
    /\ pc # "generate" =>
          \A i \in Ids : /\ nodes'[i].x = nodes[i].x
                         /\ nodes'[i].y = nodes[i].y
                         /\ nodes'[i].power <= nodes[i].power
    /\ pc \notin {"generate", "selfish"} =>
          \A i \in Ids : /\ nodes'[i].selfish = nodes[i].selfish
                         /\ nodes'[i].trust <= nodes[i].trust
    /\ Built => G' = G

\* C10: from the end of Selfish Assignment on, positions and selfish flags stay
\* as created and the links, once built, keep their edges, weights and
\* capacities; a node's power never rises and is lowered at most once, by 1..5,
\* staying in 65..100, and only for nodes the walk has visited; nodes off the
\* route keep power and trust; at most one node, a selfish one, loses trust, by
\* exactly 5, so non-selfish nodes keep trust 100; "No Path Found" changes no
\* node at all.
C10_NodeAttributes ==
    /\ [] C10_State
    /\ [][C10_Step]_vars

\* a delivery that took a node from power 70 to 65, another node losing nothing
C10_Witness ==
    /\ pc = "done"
    /\ status = "Delivered"
    /\ \E i \in OnRoute : PowerDrop(i) = 5 /\ nodes[i].power = 65
    /\ \E i \in Ids \ OnRoute : nodes[i].selfish

====
